---- MODULE Spec2Model ----
(***************************************************************************)
(* A model of the two notebooks of ML_nuggets:                             *)
(*   exercises/simclr.ipynb                 SimCLR on MNIST                *)
(*   exercises/anomaly_detection_jets.ipynb autoencoder anomaly detection  *)
(*                                                                         *)
(* Part 1 models contrastive_loss (NT-Xent) as the code computes it, on    *)
(* float32 values: exp overflows to +inf and underflows to 0, inf/inf and  *)
(* 0/0 are NaN.  Finite values are fixed-point numbers.                    *)
(***************************************************************************)
EXTENDS Integers, Sequences, FiniteSets, TLC

VARIABLES
    \* a call of contrastive_loss: its arguments, its result, its position
    z1, z2, invTemp, loss, lpc,
    \* the output of create_encoder's model on a batch: the output of the
    \* projection head, its normalization, the product z z^T, the position
    proj, outputs, cosine, epc,
    \* the jet images of cell e3efe05a and the position in the cell
    qcd_train_images, qcd_test_images, top_test_images, rpc,
    \* the run of a notebook: the notebook, the running cell, the position
    \* in it, the log of the stages
    nb, cell, at, stages,
    \* simclr.ipynb: the iterator over train_ds (the next image to read,
    \* the shuffle buffer, the elements in map, the batch being collected,
    \* the batches ready)
    ds_next, ds_shuffle, ds_map, ds_batch, ds_prefetch,
    \* the training loop: the epoch, the iteration [e, s] (s = 0 outside
    \* the inner loop), its variables x1, x2 (and z1, z2, loss above), the
    \* list losses, and the values the last statement has read
    epoch, iter, x1, x2, losses, reads,
    \* the weights (the number of updates of each), the optimizer's step
    \* count, the encoder's weights at the end of the contrastive training,
    \* the steps of classifier.fit and the weights it has updated
    weights, optimizer, model_trained, fit_step, updated,
    \* anomaly_detection_jets.ipynb: the jet types of the data set and the
    \* arrays of cell 61b86955
    labels, indices, qcd_data, top_data, qcd_train, qcd_test, top_train,
    top_test,
    \* model.fit: the epoch, the samples left in it, the samples used for
    \* gradient updates and for validation
    fit_epoch, fit_left, fitted, validated,
    \* the reconstructions and the anomaly scores
    qcd_reco_images, top_reco_images, loss_qcd, loss_top, loss_all,
    \* the autoencoder of cell d2d9a2cb: the value of im_size, the shapes
    \* of x_in, x (x_layer), x_enc, x_out, the shapes of the layers so far, the input
    \* of the softmax and the output of the model for one image, the position
    ae_im_size, x_in, x_layer, x_enc, x_out, shapes, softmax_in, prediction,
    apc

lossVars == <<z1, z2, invTemp, loss, lpc>>
encVars == <<proj, outputs, cosine, epc>>

imgVars == <<qcd_train_images, qcd_test_images, top_test_images, rpc>>

nbCtl == <<nb, cell, at, stages>>
dsVars == <<ds_next, ds_shuffle, ds_map, ds_batch, ds_prefetch>>
loopVars == <<epoch, iter, x1, x2, z1, z2, loss, losses, reads>>
wVars == <<weights, optimizer, model_trained, fit_step, updated>>
jetData == <<labels, indices, qcd_data, top_data, qcd_train, qcd_test,
             top_train, top_test>>
jetImgs == <<qcd_train_images, qcd_test_images, top_test_images>>
jetFit == <<fit_epoch, fit_left, fitted, validated>>
jetOut == <<qcd_reco_images, top_reco_images, loss_qcd, loss_top, loss_all>>
aeVars == <<ae_im_size, x_in, x_layer, x_enc, x_out, shapes, softmax_in, prediction,
           apc>>
\* what a run of a notebook leaves alone
fixedInNb == <<invTemp, lpc, rpc, encVars, aeVars>>
\* what only a run of a notebook changes
nbVars == <<nbCtl, dsVars, epoch, iter, x1, x2, losses, reads, wVars, jetData,
            jetFit, jetOut>>

vars == <<lossVars, encVars, imgVars, nbVars, aeVars>>

(***************************************************************************)
(* Bounds of the model.                                                    *)
(***************************************************************************)
\* largest batch size N of a call of contrastive_loss
MaxN == 2
\* 1/temperature of the small temperature tried beside the default
SmallInvTemp == 128
\* largest absolute value of a coordinate of the projection head's output
MaxCoord == 1
\* largest value of a pixel of a jet image before the rescaling
MaxPixel == 1
\* number of images of x_train
NImg == 3
\* number of jets of the TopTagging validation data
NJets == 5
\* largest value of im_size the autoencoder is built with
MaxImSize == 16
\* largest absolute value of an entry of the tensor the softmax is given
MaxLogit == 110

(***************************************************************************)
(* The state of a part that a specification does not run.                  *)
(***************************************************************************)
\* 1/temperature of the default temperature=0.5 of contrastive_loss
DefaultInvTemp == 2

NoLoss == [k |-> "none", v |-> 0]

LossIdle ==
    /\ z1 = <<>> /\ z2 = <<>> /\ invTemp = DefaultInvTemp
    /\ loss = NoLoss /\ lpc = "idle"

EncIdle == proj = <<>> /\ outputs = <<>> /\ cosine = <<>> /\ epc = "idle"

ImgIdle ==
    /\ qcd_train_images = <<>> /\ qcd_test_images = <<>>
    /\ top_test_images = <<>> /\ rpc = "idle"

AeIdle ==
    /\ ae_im_size = 0 /\ x_in = <<>> /\ x_layer = <<>> /\ x_enc = <<>>
    /\ x_out = <<>> /\ shapes = <<>> /\ softmax_in = <<>>
    /\ prediction = <<>> /\ apc = "idle"

\* x1, x2 before the first iteration of the training loop
NoBatch == [rows |-> <<>>, iter |-> [e |-> 0, s |-> 0]]

NbIdle ==
    /\ nb = "none" /\ cell = 0 /\ at = "idle" /\ stages = <<>>
    /\ ds_next = 1 /\ ds_shuffle = {} /\ ds_map = <<>>
    /\ ds_batch = <<>> /\ ds_prefetch = <<>>
    /\ epoch = 0 /\ iter = [e |-> 0, s |-> 0]
    /\ x1 = NoBatch /\ x2 = NoBatch /\ losses = <<>> /\ reads = {}
    /\ weights = [model |-> 0, dense64 |-> 0, dense10 |-> 0]
    /\ optimizer = 0 /\ model_trained = 0 /\ fit_step = 0 /\ updated = {}
    /\ labels = <<>> /\ indices = <<>> /\ qcd_data = <<>> /\ top_data = <<>>
    /\ qcd_train = <<>> /\ qcd_test = <<>>
    /\ top_train = <<>> /\ top_test = <<>>
    /\ fit_epoch = 0 /\ fit_left = {} /\ fitted = {} /\ validated = {}
    /\ qcd_reco_images = <<>> /\ top_reco_images = <<>>
    /\ loss_qcd = <<>> /\ loss_top = <<>> /\ loss_all = <<>>

(***************************************************************************)
(* float32 values.  A value is a record: k is the kind, v the payload.     *)
(*   "fin"  : the finite number v / ExpScale (exp results, sums)           *)
(*   "inf"  : +infinity          "ninf" : -infinity        "nan" : NaN     *)
(***************************************************************************)
Fin(v) == [k |-> "fin", v |-> v]
FInf == [k |-> "inf", v |-> 0]
FNegInf == [k |-> "ninf", v |-> 0]
FNaN == [k |-> "nan", v |-> 0]

\* fixed-point scale of the values of exp: the value 1.0 is ExpScale
ExpScale == 1000

\* tf.exp on float32 returns +inf for arguments above 88.72...
ExpOverflowAbove == 88
\* ... and 0 for arguments below -103.97
ExpUnderflowBelow == -104

\* the constant 1e9 that the mask subtracts from the diagonal
MaskBig == 1000000000

\* e^x for an integer x in the finite range, in fixed point (e ~ 2718/1000)
RECURSIVE ExpFix(_)
ExpFix(x) ==
    IF x = 0 THEN ExpScale
    ELSE IF x > 0 THEN (ExpFix(x - 1) * 2718) \div 1000
    ELSE (ExpFix(x + 1) * 1000) \div 2718

\* tf.exp
TfExp(x) ==
    IF x > ExpOverflowAbove THEN FInf
    ELSE IF x < ExpUnderflowBelow THEN Fin(0)
    ELSE Fin(ExpFix(x))

\* float addition of two values that are >= 0 or +inf or NaN
FAdd(a, b) ==
    IF a.k = "nan" \/ b.k = "nan" THEN FNaN
    ELSE IF a.k = "inf" \/ b.k = "inf" THEN FInf
    ELSE Fin(a.v + b.v)

\* tf.reduce_sum over one row (a sequence of values)
RECURSIVE ReduceSum(_)
ReduceSum(row) ==
    IF Len(row) = 0 THEN Fin(0)
    ELSE FAdd(Head(row), ReduceSum(Tail(row)))

\* float division numerator / denominator of values >= 0: the quotient is
\* kept exactly, as the pair n/d
FDiv(a, b) ==
    IF a.k = "nan" \/ b.k = "nan" THEN [k |-> "nan", n |-> 0, d |-> 1]
    ELSE IF a.k = "inf" /\ b.k = "inf" THEN [k |-> "nan", n |-> 0, d |-> 1]
    ELSE IF a.k = "inf" THEN [k |-> "inf", n |-> 0, d |-> 1]
    ELSE IF b.k = "inf" THEN [k |-> "fin", n |-> 0, d |-> 1]
    ELSE IF b.v = 0 THEN
        (IF a.v = 0 THEN [k |-> "nan", n |-> 0, d |-> 1]
         ELSE [k |-> "inf", n |-> 0, d |-> 1])
    ELSE [k |-> "fin", n |-> a.v, d |-> b.v]

\* fixed-point scale of the values of log: 2^12
LogScale == 4096

\* the integer part of log2(a/b), for a >= b > 0
RECURSIVE IntLog2(_, _)
IntLog2(a, b) == IF a >= 2 * b THEN 1 + IntLog2(a, 2 * b) ELSE 0

\* the fractional bits of log2(y / LogScale), LogScale <= y < 2 * LogScale,
\* by repeated squaring; bit is the weight of the next bit
RECURSIVE FracLog2(_, _)
FracLog2(y, bit) ==
    IF bit = 0 THEN 0
    ELSE LET y2 == (y * y) \div LogScale
         IN  IF y2 >= 2 * LogScale
             THEN bit + FracLog2(y2 \div 2, bit \div 2)
             ELSE FracLog2(y2, bit \div 2)

\* log2(a/b) * LogScale for a >= b > 0
Log2Fix(a, b) ==
    LET ip == IntLog2(a, b)
        y == (a * LogScale) \div (b * (2 ^ ip))
    IN  ip * LogScale + FracLog2(y, LogScale \div 2)

\* ln(a/b) * LogScale for a, b > 0 (ln 2 ~ 693/1000)
LnFix(a, b) ==
    IF a >= b THEN (Log2Fix(a, b) * 693) \div 1000
    ELSE 0 - ((Log2Fix(b, a) * 693) \div 1000)

\* NegLog with the sign of the logarithm lost: +log(q)
NegLogSignLost(q) ==
    IF q.k = "nan" THEN FNaN
    ELSE IF q.k = "inf" THEN FInf
    ELSE IF q.n = 0 THEN FNegInf
    ELSE Fin(LnFix(q.n, q.d))

\* -tf.math.log(q) of a quotient q
NegLog(q) ==
    IF q.k = "nan" THEN FNaN
    ELSE IF q.k = "inf" THEN FNegInf
    ELSE IF q.n = 0 THEN FInf
    ELSE Fin(LnFix(q.d, q.n))

\* the sum of the payloads of a sequence of finite values
RECURSIVE SumFin(_)
SumFin(s) == IF Len(s) = 0 THEN 0 ELSE Head(s).v + SumFin(Tail(s))

\* tf.reduce_mean of a non-empty sequence of values
ReduceMean(s) ==
    LET kinds == {s[i].k : i \in 1..Len(s)}
    IN  IF "nan" \in kinds THEN FNaN
        ELSE IF "inf" \in kinds /\ "ninf" \in kinds THEN FNaN
        ELSE IF "inf" \in kinds THEN FInf
        ELSE IF "ninf" \in kinds THEN FNegInf
        ELSE Fin(SumFin(s) \div Len(s))

(***************************************************************************)
(* contrastive_loss.  An embedding is a sequence of integers, a batch a    *)
(* sequence of embeddings.  The temperature is 1/invT.                     *)
(***************************************************************************)
Dot(a, b) ==
    LET RECURSIVE S(_)
        S(i) == IF i = 0 THEN 0 ELSE a[i] * b[i] + S(i - 1)
    IN  S(Len(a))

\* z = tf.concat([z1, z2], axis=0)
Concat(a, b) == a \o b

\* sim = tf.matmul(z, z, transpose_b=True)
MatMulT(z) == [i \in 1..Len(z) |-> [j \in 1..Len(z) |-> Dot(z[i], z[j])]]

\* sim /= temperature
ScaleSim(sim, invT) ==
    [i \in 1..Len(sim) |-> [j \in 1..Len(sim) |-> sim[i][j] * invT]]

\* mask = tf.eye(2 * batch_size)
Eye(n) == [i \in 1..n |-> [j \in 1..n |-> IF i = j THEN 1 ELSE 0]]

\* sim = sim - 1e9 * mask
MaskSim(sim, mask) ==
    [i \in 1..Len(sim) |->
        [j \in 1..Len(sim) |-> sim[i][j] - MaskBig * mask[i][j]]]

\* tf.linalg.diag_part(m, k): the k-th diagonal of the square matrix m,
\* above the main diagonal for k > 0 and below it for k < 0
DiagPart(m, k) ==
    IF k >= 0
    THEN [i \in 1..(Len(m) - k) |-> m[i][i + k]]
    ELSE [i \in 1..(Len(m) + k) |-> m[i - k][i]]

\* Positives with every entry taken one column to the right of the
\* positive's (cyclically)
PositivesOffByOne(sim, n) ==
    [i \in 1..(2 * n) |-> sim[i][((i + n) % (2 * n)) + 1]]

\* positives = tf.concat([diag_part(sim, k=N), diag_part(sim, k=-N)])
Positives(sim, n) == Concat(DiagPart(sim, n), DiagPart(sim, 0 - n))

\* numerator = tf.exp(positives)
Numerator(sim, n) ==
    LET p == Positives(sim, n) IN [i \in 1..Len(p) |-> TfExp(p[i])]

\* denominator = tf.reduce_sum(tf.exp(sim), axis=1)
Denominator(sim) ==
    [i \in 1..Len(sim) |->
        ReduceSum([j \in 1..Len(sim) |-> TfExp(sim[i][j])])]

\* loss = -tf.math.log(numerator / denominator), one value per row
RowLoss(sim, n) ==
    LET num == Numerator(sim, n)
        den == Denominator(sim)
    IN  [i \in 1..Len(num) |-> NegLog(FDiv(num[i], den[i]))]

\* lines 132-154 of the function, from the scaled similarity matrix on
LossFromSim(sim, n) == ReduceMean(RowLoss(MaskSim(sim, Eye(2 * n)), n))

\* the scaled similarity matrix of the two batches (lines 126-130)
ScaledSim(a, b, invT) == ScaleSim(MatMulT(Concat(a, b)), invT)

contrastive_loss(a, b, invT) == LossFromSim(ScaledSim(a, b, invT), Len(a))

(***************************************************************************)
(* The inputs of contrastive_loss: batches of L2-normalized embeddings     *)
(* (the unit vectors along the axes of the plane) and a temperature.       *)
(***************************************************************************)
UnitVecs == {<<1, 0>>, <<0, 1>>, <<-1, 0>>, <<0, -1>>}

Batches == UNION {[1..n -> UnitVecs] : n \in 1..MaxN}

InvTemps == {1, DefaultInvTemp, SmallInvTemp}


(***************************************************************************)
(* Part 2: the last layers of create_encoder.  The projection head ends in *)
(* Dense(projection_dim); its output is normalized by                      *)
(* tf.math.l2_normalize(outputs, axis=1).  Coordinates are in units of     *)
(* 1e-6, so that the epsilon 1e-12 of l2_normalize, which bounds the sum   *)
(* of squares from below, is 1.  A normalized coordinate is kept exactly,  *)
(* as the record [x, d] that stands for x / sqrt(d).                       *)
(***************************************************************************)
\* projection_dim, scaled down from 32
ProjDim == 2

\* epsilon=1e-12, the default of tf.math.l2_normalize, in squared units
Epsilon == 1

Max(a, b) == IF a >= b THEN a ELSE b

RECURSIVE SumSeq(_)
SumSeq(s) == IF Len(s) = 0 THEN 0 ELSE Head(s) + SumSeq(Tail(s))

\* tf.reduce_sum(tf.square(x), axis): one sum per row for axis = 1, one per
\* column for axis = 0; Sq[i][j] is the sum that element (i, j) belongs to
SquareSum(x, axis) ==
    [i \in 1..Len(x) |->
        [j \in 1..Len(x[i]) |->
            IF axis = 1
            THEN SumSeq([c \in 1..Len(x[i]) |-> x[i][c] * x[i][c]])
            ELSE SumSeq([r \in 1..Len(x) |-> x[r][j] * x[r][j]])]]

\* l2_normalize along the batch axis (axis=0) instead of the rows
L2NormalizeAxis0(x) ==
    LET sq == SquareSum(x, 0)
    IN  [i \in 1..Len(x) |->
            [j \in 1..Len(x[i]) |->
                [x |-> x[i][j], d |-> Max(sq[i][j], Epsilon)]]]

\* tf.math.l2_normalize(x, axis=1): x * rsqrt(max(sum(x^2), epsilon))
L2Normalize(x) ==
    LET sq == SquareSum(x, 1)
    IN  [i \in 1..Len(x) |->
            [j \in 1..Len(x[i]) |->
                [x |-> x[i][j], d |-> Max(sq[i][j], Epsilon)]]]

\* tf.matmul(z, z, transpose_b=True) of normalized rows: entry (i, j) is
\* the sum over c of z[i][c] * z[j][c]; with one divisor d per row it is
\* n / sqrt(dd), n the dot product of the x and dd the product of the d
MatMulTNormalized(z) ==
    [i \in 1..Len(z) |->
        [j \in 1..Len(z) |->
            [n |-> SumSeq([c \in 1..Len(z[i]) |-> z[i][c].x * z[j][c].x]),
             dd |-> z[i][1].d * z[j][1].d]]]

ProjRows == [1..ProjDim -> -MaxCoord..MaxCoord]

\* the projection head's output on a batch of two images
EncInit ==
    /\ proj \in [1..2 -> ProjRows]
    /\ outputs = <<>>
    /\ cosine = <<>>
    /\ epc = "normalize"
    /\ LossIdle
    /\ ImgIdle
    /\ NbIdle
    /\ AeIdle

\* outputs = tf.math.l2_normalize(outputs, axis=1)
EncNormalize ==
    /\ epc = "normalize"
    /\ outputs' = L2Normalize(proj)
    /\ epc' = "matmul"
    /\ UNCHANGED <<proj, cosine, lossVars, imgVars, nbVars, aeVars>>

\* sim = tf.matmul(z, z, transpose_b=True), in contrastive_loss
EncMatMul ==
    /\ epc = "matmul"
    /\ cosine' = MatMulTNormalized(outputs)
    /\ epc' = "done"
    /\ UNCHANGED <<proj, outputs, lossVars, imgVars, nbVars, aeVars>>

EncNext == EncNormalize \/ EncMatMul

SpecEncoder == EncInit /\ [][EncNext]_vars

(***************************************************************************)
(* Part 3: the rescaling of the jet images (cell e3efe05a).  An array of   *)
(* shape (n, im_size, im_size, 1) is a sequence a[k][r][c][ch].  A pixel   *)
(* of jetnet.utils.to_image is a number >= 0.  A rescaled pixel is the     *)
(* quotient [k, n, d] of numpy's float division: n/d, inf or NaN.          *)
(***************************************************************************)
\* im_size, scaled down from 16
im_size == 2

\* a.reshape(-1): the elements of a in row-major order
Flatten(a) ==
    [f \in 1..(Len(a) * im_size * im_size) |->
        a[((f - 1) \div (im_size * im_size)) + 1]
         [(((f - 1) \div im_size) % im_size) + 1]
         [((f - 1) % im_size) + 1][1]]

\* a.reshape(-1, 1, 1, 1, last): rows of `last` consecutive elements (the
\* three axes of size 1 have the one index 1 and are left out)
Reshape5(a, last) ==
    LET flat == Flatten(a)
    IN  [m \in 1..(Len(flat) \div last) |->
            SubSeq(flat, (m - 1) * last + 1, m * last)]

\* np.sum(b, axis=-1), of shape (m, 1, 1, 1)
SumLastAxis(b) == [m \in 1..Len(b) |-> SumSeq(b[m])]

\* numpy's float division of two numbers >= 0
NpDivide(a, b) ==
    IF b # 0 THEN [k |-> "fin", n |-> a, d |-> b]
    ELSE IF a = 0 THEN [k |-> "nan", n |-> 0, d |-> 1]
    ELSE [k |-> "inf", n |-> 0, d |-> 1]

\* a / s with broadcasting, a of shape (n, im_size, im_size, 1) and s of
\* shape (m, 1, 1, 1): along an axis of size 1 the one element is repeated
BroadcastDivide(a, s) ==
    [k \in 1..Len(a) |->
        [r \in 1..im_size |->
            [c \in 1..im_size |->
                [ch \in 1..1 |->
                    NpDivide(a[k][r][c][ch],
                             s[IF Len(s) = 1 THEN 1 ELSE k])]]]]

\* images / np.sum(images.reshape(-1, 1, 1, 1, im_size * im_size), axis=-1)
Rescale(images) ==
    BroadcastDivide(images, SumLastAxis(Reshape5(images, im_size * im_size)))

\* the images np.expand_dims(jetnet.utils.to_image(...), axis=-1) can return
JetImages == [1..im_size -> [1..im_size -> [1..1 -> 0..MaxPixel]]]

\* after the three conversions (lines 70-72)
RescaleInit ==
    /\ qcd_train_images \in [1..2 -> JetImages]
    /\ qcd_test_images \in [1..1 -> JetImages]
    /\ top_test_images \in [1..1 -> JetImages]
    /\ rpc = "qcd_train"
    /\ LossIdle
    /\ EncIdle
    /\ NbIdle
    /\ AeIdle

\* line 75
RescaleQcdTrain ==
    /\ rpc = "qcd_train"
    /\ qcd_train_images' = Rescale(qcd_train_images)
    /\ rpc' = "qcd_test"
    /\ UNCHANGED <<qcd_test_images, top_test_images, lossVars, encVars, nbVars, aeVars>>

\* line 76
RescaleQcdTest ==
    /\ rpc = "qcd_test"
    /\ qcd_test_images' = Rescale(qcd_test_images)
    /\ rpc' = "top_test"
    /\ UNCHANGED <<qcd_train_images, top_test_images, lossVars, encVars, nbVars, aeVars>>

\* line 77
RescaleTopTest ==
    /\ rpc = "top_test"
    /\ top_test_images' = Rescale(top_test_images)
    /\ rpc' = "done"
    /\ UNCHANGED <<qcd_train_images, qcd_test_images, lossVars, encVars, nbVars, aeVars>>

RescaleNext == RescaleQcdTrain \/ RescaleQcdTest \/ RescaleTopTest

SpecRescale == RescaleInit /\ [][RescaleNext]_vars

(***************************************************************************)
(* Part 4: the two notebooks, each run top to bottom, one cell after the   *)
(* other.  cell is the index of the running cell in the notebook's list of *)
(* code cells, at the position inside it.  stages is the log of what the   *)
(* run has done so far: one entry per stage event, a repeated event        *)
(* logged once.                                                            *)
(***************************************************************************)
\* the code cells of simclr.ipynb, in the order of the file
SimclrCells ==
    << "69ca6b06",  \* imports, class SimCLRPreprocessing
       "96a926e4",  \* def create_encoder
       "48b9e986",  \* def contrastive_loss
       "ec249101",  \* data, train_ds, model, training loop
       "ea173879",  \* t-SNE of the encoder's features
       "a83733ab",  \* linear evaluation
       "7f67f0ff" >>  \* t-SNE of the classifier's output

\* the code cells of anomaly_detection_jets.ipynb with the plot of the
\* input images moved after the training
JetsCellsPlotAfterFit ==
    << "257a9895", "8a9098d1", "61b86955", "e3efe05a", "d3305831",
       "d2d9a2cb", "63ead39e", "2daf76f8", "9fa8141f", "245e5c73",
       "3e1fa63f", "1ee0eadf", "927f63d9" >>

\* the code cells of anomaly_detection_jets.ipynb, in the order of the file
JetsCells ==
    << "257a9895",  \* pip install
       "8a9098d1",  \* constants, download of the TopTagging data
       "61b86955",  \* selection, QCD/top split, train/test split
       "e3efe05a",  \* to_image, rescaling
       "d3305831",  \* def plot_jet_images
       "2daf76f8",  \* plot of a QCD and a top input image
       "d2d9a2cb",  \* autoencoder, compile, encoder
       "63ead39e",  \* model.fit
       "9fa8141f",  \* reconstruction and plot of a QCD jet
       "245e5c73",  \* reconstruction and plot of a top jet
       "3e1fa63f",  \* model.predict of the two test sets
       "1ee0eadf",  \* loss_qcd, loss_top, loss_all
       "927f63d9" >>  \* histogram of the losses

Cells == IF nb = "simclr" THEN SimclrCells ELSE JetsCells

\* the id of the running cell; "end" after the last cell
Cell == IF cell \in 1..Len(Cells) THEN Cells[cell] ELSE "end"

\* the cells that only import or define
DefinitionCells == {"69ca6b06", "96a926e4", "48b9e986", "257a9895", "d3305831"}

Log(e) ==
    IF stages # <<>> /\ stages[Len(stages)] = e THEN stages
    ELSE Append(stages, e)

Range(s) == {s[i] : i \in 1..Len(s)}

\* a cell of imports and definitions
DefineCell ==
    /\ Cell \in DefinitionCells
    /\ cell' = cell + 1
    /\ UNCHANGED <<nb, at, stages, dsVars, loopVars, wVars, jetData, jetImgs,
                   jetFit, jetOut, fixedInNb>>

(***************************************************************************)
(* simclr.ipynb, cell ec249101: the data and the tf.data pipeline          *)
(*   from_tensor_slices(x_train).shuffle(1024).map(augment, parallel)      *)
(*       .batch(batch_size).prefetch(AUTOTUNE)                             *)
(* An image of x_train is its index.  A view is [src, call]: the output of *)
(* the call-th application of self.augment to image src.                   *)
(***************************************************************************)
\* batch_size, scaled down from 512
batch_size == 2
\* the buffer size of shuffle, scaled down from 1024
ShuffleBuffer == 2
\* the number of epochs of the training loop, scaled down from 20
Epochs == 2
\* the number of elements map works on in parallel (AUTOTUNE)
MapParallel == 2
\* the number of batches prefetch holds ready (AUTOTUNE)
PrefetchDepth == 1
\* the number of gradient steps of classifier.fit (epochs=5, batch 256)
ClassifierSteps == 2

\* SimCLRPreprocessing.call(x): return self.augment(x), self.augment(x)
AugmentCall(x) == <<[src |-> x, call |-> 1], [src |-> x, call |-> 2]>>

\* batch that pairs the second views in reverse order
MakeBatchReversed(elems) ==
    <<[i \in 1..Len(elems) |-> elems[i].out[1]],
      [i \in 1..Len(elems) |-> elems[Len(elems) + 1 - i].out[2]]>>

\* batch: the elements are stacked component by component
MakeBatch(elems) ==
    <<[i \in 1..Len(elems) |-> elems[i].out[1]],
      [i \in 1..Len(elems) |-> elems[i].out[2]]>>

\* line 174-176: mnist.load_data(), the channel axis, float32
LoadMnist ==
    /\ Cell = "ec249101" /\ at = "start"
    /\ at' = "pipeline"
    /\ stages' = Log("load")
    /\ UNCHANGED <<nb, cell, dsVars, loopVars, wVars, jetData, jetImgs,
                   jetFit, jetOut, fixedInNb>>

\* line 178-186: augment and train_ds are defined; nothing is computed yet
DefinePipeline ==
    /\ Cell = "ec249101" /\ at = "pipeline"
    /\ at' = "build"
    /\ UNCHANGED <<nb, cell, stages, dsVars, loopVars, wVars, jetData,
                   jetImgs, jetFit, jetOut, fixedInNb>>

\* line 191-192: model = create_encoder(), optimizer = Adam()
CreateEncoder ==
    /\ Cell = "ec249101" /\ at = "build"
    /\ weights' = [weights EXCEPT !.model = 0]
    /\ optimizer' = 0
    /\ at' = "epoch"
    /\ stages' = Log("build")
    /\ UNCHANGED <<nb, cell, dsVars, loopVars, model_trained, fit_step,
                   updated, jetData, jetImgs, jetFit, jetOut, fixedInNb>>

\* EpochStart without line 195: losses is not emptied
EpochStartNoReset ==
    /\ Cell = "ec249101" /\ at = "epoch" /\ epoch < Epochs
    /\ epoch' = epoch + 1
    /\ iter' = [e |-> epoch + 1, s |-> 0]
    /\ ds_next' = 1 /\ ds_shuffle' = {} /\ ds_map' = <<>>
    /\ ds_batch' = <<>> /\ ds_prefetch' = <<>>
    /\ reads' = {}
    /\ at' = "for"
    /\ UNCHANGED <<nb, cell, stages, x1, x2, z1, z2, loss, losses, wVars,
                   jetData, jetImgs, jetFit, jetOut, fixedInNb>>

\* line 194-196: the next epoch: losses = [], a new iterator over train_ds
EpochStart ==
    /\ Cell = "ec249101" /\ at = "epoch" /\ epoch < Epochs
    /\ epoch' = epoch + 1
    /\ iter' = [e |-> epoch + 1, s |-> 0]
    /\ losses' = <<>>
    /\ ds_next' = 1 /\ ds_shuffle' = {} /\ ds_map' = <<>>
    /\ ds_batch' = <<>> /\ ds_prefetch' = <<>>
    /\ reads' = {}
    /\ at' = "for"
    /\ UNCHANGED <<nb, cell, stages, x1, x2, z1, z2, loss, wVars, jetData,
                   jetImgs, jetFit, jetOut, fixedInNb>>

\* the iterator of the epoch is live
Iterating == nb = "simclr" /\ Cell = "ec249101" /\ at \in {"for", "body"}

SourceDone == ds_next > NImg
UpstreamDone == SourceDone /\ ds_shuffle = {} /\ ds_map = <<>>

\* shuffle reads the next image of x_train into its buffer
ShuffleFill ==
    /\ Iterating
    /\ ~SourceDone /\ Cardinality(ds_shuffle) < ShuffleBuffer
    /\ ds_shuffle' = ds_shuffle \cup {ds_next}
    /\ ds_next' = ds_next + 1
    /\ UNCHANGED <<nbCtl, ds_map, ds_batch, ds_prefetch, loopVars, wVars,
                   jetData, jetImgs, jetFit, jetOut, fixedInNb>>

\* shuffle hands a random element of its full buffer (or of what is left,
\* once x_train is read) to map
ShuffleEmit ==
    /\ Iterating
    /\ Cardinality(ds_shuffle) = ShuffleBuffer \/ SourceDone
    /\ Len(ds_map) < MapParallel
    /\ \E x \in ds_shuffle :
        /\ ds_shuffle' = ds_shuffle \ {x}
        /\ ds_map' = Append(ds_map, [img |-> x, out |-> <<>>])
    /\ UNCHANGED <<nbCtl, ds_next, ds_batch, ds_prefetch, loopVars, wVars,
                   jetData, jetImgs, jetFit, jetOut, fixedInNb>>

\* map calls augment on one of the elements it holds: the augmentation runs
MapCall ==
    /\ Iterating
    /\ \E i \in 1..Len(ds_map) :
        /\ ds_map[i].out = <<>>
        /\ ds_map' = [ds_map EXCEPT ![i].out = AugmentCall(ds_map[i].img)]
    /\ stages' = Log("augment")
    /\ UNCHANGED <<nb, cell, at, ds_next, ds_shuffle, ds_batch, ds_prefetch,
                   loopVars, wVars, jetData, jetImgs, jetFit, jetOut,
                   fixedInNb>>

\* map hands its results on in the order of its input; batch collects them
MapEmit ==
    /\ Iterating
    /\ ds_map # <<>> /\ Head(ds_map).out # <<>>
    /\ Len(ds_batch) < batch_size
    /\ ds_batch' = Append(ds_batch, Head(ds_map))
    /\ ds_map' = Tail(ds_map)
    /\ UNCHANGED <<nbCtl, ds_next, ds_shuffle, ds_prefetch, loopVars, wVars,
                   jetData, jetImgs, jetFit, jetOut, fixedInNb>>

\* batch hands a full batch, or the rest at the end of the data, to prefetch
BatchEmit ==
    /\ Iterating
    /\ Len(ds_batch) = batch_size \/ (UpstreamDone /\ ds_batch # <<>>)
    /\ Len(ds_prefetch) < PrefetchDepth
    /\ ds_prefetch' = Append(ds_prefetch, MakeBatch(ds_batch))
    /\ ds_batch' = <<>>
    /\ UNCHANGED <<nbCtl, ds_next, ds_shuffle, ds_map, loopVars, wVars,
                   jetData, jetImgs, jetFit, jetOut, fixedInNb>>

\* line 196: for x1, x2 in train_ds binds the next batch
ForNext ==
    /\ Cell = "ec249101" /\ at = "for"
    /\ ds_prefetch # <<>>
    /\ iter' = [iter EXCEPT !.s = iter.s + 1]
    /\ x1' = [rows |-> Head(ds_prefetch)[1], iter |-> iter']
    /\ x2' = [rows |-> Head(ds_prefetch)[2], iter |-> iter']
    /\ ds_prefetch' = Tail(ds_prefetch)
    /\ reads' = {}
    /\ at' = "body"
    /\ UNCHANGED <<nb, cell, stages, ds_next, ds_shuffle, ds_map, ds_batch,
                   epoch, z1, z2, loss, losses, wVars, jetData, jetImgs,
                   jetFit, jetOut, fixedInNb>>

\* model(x, training=True): one embedding per row of the batch
Embed(x, w, it) ==
    [rows |-> [i \in 1..Len(x.rows) |-> [of |-> x.rows[i], w |-> w]],
     iter |-> it]

\* line 197-203: the body of the inner loop
TrainStep ==
    /\ Cell = "ec249101" /\ at = "body"
    /\ z1' = Embed(x1, weights.model, iter)
    /\ z2' = Embed(x2, weights.model, iter)
    /\ loss' = [of |-> <<z1'.iter, z2'.iter>>, w |-> weights.model,
                iter |-> iter]
    /\ reads' = {[var |-> "x1", iter |-> x1.iter],
                 [var |-> "x2", iter |-> x2.iter],
                 [var |-> "z1", iter |-> z1'.iter],
                 [var |-> "z2", iter |-> z2'.iter],
                 [var |-> "loss", iter |-> loss'.iter]}
    /\ weights' = [weights EXCEPT !.model = weights.model + 1]
    /\ optimizer' = optimizer + 1
    /\ losses' = Append(losses, loss')
    /\ at' = "for"
    /\ stages' = Log("train")
    /\ UNCHANGED <<nb, cell, dsVars, epoch, iter, x1, x2, model_trained,
                   fit_step, updated, jetData, jetImgs, jetFit, jetOut,
                   fixedInNb>>

\* line 196: train_ds is exhausted, the inner loop ends
ForEnd ==
    /\ Cell = "ec249101" /\ at = "for"
    /\ UpstreamDone /\ ds_batch = <<>> /\ ds_prefetch = <<>>
    /\ iter' = [iter EXCEPT !.s = 0]
    /\ reads' = {}
    /\ at' = "print"
    /\ UNCHANGED <<nb, cell, stages, dsVars, epoch, x1, x2, z1, z2, loss,
                   losses, wVars, jetData, jetImgs, jetFit, jetOut,
                   fixedInNb>>

\* line 204: print(... np.mean(losses) ...)
EpochPrint ==
    /\ Cell = "ec249101" /\ at = "print"
    /\ reads' = {[var |-> "losses", iter |-> losses[k].iter] :
                    k \in 1..Len(losses)}
    /\ at' = "epoch"
    /\ UNCHANGED <<nb, cell, stages, dsVars, epoch, iter, x1, x2, z1, z2,
                   loss, losses, wVars, jetData, jetImgs, jetFit, jetOut,
                   fixedInNb>>

\* line 194: the last epoch is over, the cell ends
TrainingDone ==
    /\ Cell = "ec249101" /\ at = "epoch" /\ epoch = Epochs
    /\ model_trained' = weights.model
    /\ reads' = {}
    /\ cell' = cell + 1
    /\ at' = "start"
    /\ UNCHANGED <<nb, stages, dsVars, epoch, iter, x1, x2, z1, z2, loss,
                   losses, weights, optimizer, fit_step, updated, jetData,
                   jetImgs, jetFit, jetOut, fixedInNb>>

(***************************************************************************)
(* simclr.ipynb, the cells after the training.                             *)
(***************************************************************************)
\* line 226-228 and 277-279: features = model(x_test / 255.), t-SNE
ComputeTsne ==
    /\ Cell \in {"ea173879", "7f67f0ff"} /\ at = "start"
    /\ at' = "plot"
    /\ stages' = Log("compute")
    /\ UNCHANGED <<nb, cell, dsVars, loopVars, wVars, jetData, jetImgs,
                   jetFit, jetOut, fixedInNb>>

\* line 230-235 and 281-285: the scatter plot
PlotTsne ==
    /\ Cell \in {"ea173879", "7f67f0ff"} /\ at = "plot"
    /\ cell' = cell + 1
    /\ at' = "start"
    /\ stages' = Log("visualize")
    /\ UNCHANGED <<nb, dsVars, loopVars, wVars, jetData, jetImgs, jetFit,
                   jetOut, fixedInNb>>

\* the layers of classifier (line 256-263): the sublayers of each layer,
\* its own weights, and its trainable attribute (True unless set)
Layers ==
    [classifier |-> [sub |-> <<"frozen_encoder", "dense10">>,
                     own |-> {}, trainable |-> TRUE],
     frozen_encoder |-> [sub |-> <<"model", "dense64">>,
                         own |-> {}, trainable |-> TRUE],
     model |-> [sub |-> <<>>, own |-> {"model"}, trainable |-> TRUE],
     dense64 |-> [sub |-> <<>>, own |-> {"dense64"}, trainable |-> FALSE],
     dense10 |-> [sub |-> <<>>, own |-> {"dense10"}, trainable |-> TRUE]]

\* keras: layer.trainable_weights is empty for a layer that is not
\* trainable, else the layer's own weights and those of its sublayers
RECURSIVE TrainableWeights(_)
TrainableWeights(l) ==
    IF ~Layers[l].trainable THEN {}
    ELSE Layers[l].own \cup
         UNION {TrainableWeights(Layers[l].sub[i]) :
                    i \in 1..Len(Layers[l].sub)}

\* line 256-264: frozen_encoder, classifier, compile
BuildClassifier ==
    /\ Cell = "a83733ab" /\ at = "start"
    /\ weights' = [weights EXCEPT !.dense64 = 0, !.dense10 = 0]
    /\ fit_step' = 0
    /\ updated' = {}
    /\ at' = "fit"
    /\ stages' = Log("build")
    /\ UNCHANGED <<nb, cell, dsVars, loopVars, optimizer, model_trained,
                   jetData, jetImgs, jetFit, jetOut, fixedInNb>>

\* line 265: one gradient step of classifier.fit: every trainable weight
\* of classifier is updated
ClassifierFitStep ==
    /\ Cell = "a83733ab" /\ at = "fit" /\ fit_step < ClassifierSteps
    /\ weights' = [w \in DOMAIN weights |->
                      IF w \in TrainableWeights("classifier")
                      THEN weights[w] + 1 ELSE weights[w]]
    /\ updated' = updated \cup TrainableWeights("classifier")
    /\ fit_step' = fit_step + 1
    /\ stages' = Log("train")
    /\ UNCHANGED <<nb, cell, at, dsVars, loopVars, optimizer, model_trained,
                   jetData, jetImgs, jetFit, jetOut, fixedInNb>>

\* line 265: classifier.fit returns
ClassifierFitDone ==
    /\ Cell = "a83733ab" /\ at = "fit" /\ fit_step = ClassifierSteps
    /\ cell' = cell + 1
    /\ at' = "start"
    /\ UNCHANGED <<nb, stages, dsVars, loopVars, wVars, jetData, jetImgs,
                   jetFit, jetOut, fixedInNb>>

(***************************************************************************)
(* anomaly_detection_jets.ipynb.  A jet is its index in the data set,      *)
(* labels[j] its type (0 QCD, 1 top).  The image of jet j is [jet |-> j].  *)
(***************************************************************************)
\* max_jets, scaled down from 50000
max_jets == 5
\* batch_size of model.fit, scaled down from 32
FitBatch == 2
\* epochs of model.fit, scaled down from 10
FitEpochs == 2

Min(a, b) == IF a <= b THEN a ELSE b

\* the data sets of NJets jets: the QCD jets (label 0) before the top jets
\* (label 1); which jets are selected, and in which order, is the choice of
\* np.random.permutation
DataSets == {[j \in 1..NJets |-> IF j <= q THEN 0 ELSE 1] : q \in 0..NJets}

\* the sequences of n different elements of S
InjSeqs(S, n) == {s \in [1..n -> S] : \A i, j \in 1..n : i # j => s[i] # s[j]}

\* the elements of the sequence arr with the given label, in their order
WithLabel(arr, l) == SelectSeq(arr, LAMBDA j : labels[j] = l)

\* line 8-36: the constants, the download of the validation data
JetsDownload ==
    /\ Cell = "8a9098d1"
    /\ cell' = cell + 1
    /\ stages' = Log("load")
    /\ UNCHANGED <<nb, at, dsVars, loopVars, wVars, jetData, jetImgs, jetFit,
                   jetOut, fixedInNb>>

\* line 48-53: indices = np.random.permutation(...)[:max_jets]; the jets of
\* type 0 are qcd_data, those of type 1 top_data
JetsSelect ==
    /\ Cell = "61b86955" /\ at = "start"
    /\ indices' \in InjSeqs(1..NJets, Min(max_jets, NJets))
    /\ qcd_data' = WithLabel(indices', 0)
    /\ top_data' = WithLabel(indices', 1)
    /\ at' = "split_qcd"
    /\ stages' = Log("load")
    /\ UNCHANGED <<nb, cell, dsVars, loopVars, wVars, labels, qcd_train,
                   qcd_test, top_train, top_test, jetImgs, jetFit, jetOut,
                   fixedInNb>>

\* the number of test samples of train_test_split(test_size=0.2): ceil(n/5)
NTest(n) == (n + 4) \div 5

\* sklearn's train_test_split(arr, test_size=0.2, random_state=42): perm is
\* the permutation of the seed; the test part is its first ceil(0.2 n)
\* positions, the train part the rest
TrainTestSplit(arr, perm) ==
    LET n == Len(arr)
    IN  [test |-> [i \in 1..NTest(n) |-> arr[perm[i]]],
         train |-> [i \in 1..(n - NTest(n)) |-> arr[perm[NTest(n) + i]]]]

\* train_test_split raises ValueError when the train part would be empty
SplitRaises(arr) == Len(arr) - NTest(Len(arr)) < 1

\* line 56: the split of qcd_data
JetsSplitQcd ==
    /\ Cell = "61b86955" /\ at = "split_qcd"
    /\ ~SplitRaises(qcd_data)
    /\ \E perm \in InjSeqs(1..Len(qcd_data), Len(qcd_data)) :
        /\ qcd_train' = TrainTestSplit(qcd_data, perm).train
        /\ qcd_test' = TrainTestSplit(qcd_data, perm).test
    /\ at' = "split_top"
    /\ UNCHANGED <<nb, cell, stages, dsVars, loopVars, wVars, labels, indices,
                   qcd_data, top_data, top_train, top_test, jetImgs, jetFit,
                   jetOut, fixedInNb>>

\* line 57: the split of top_data
JetsSplitTop ==
    /\ Cell = "61b86955" /\ at = "split_top"
    /\ ~SplitRaises(top_data)
    /\ \E perm \in InjSeqs(1..Len(top_data), Len(top_data)) :
        /\ top_train' = TrainTestSplit(top_data, perm).train
        /\ top_test' = TrainTestSplit(top_data, perm).test
    /\ cell' = cell + 1
    /\ at' = "start"
    /\ UNCHANGED <<nb, stages, dsVars, loopVars, wVars, labels, indices,
                   qcd_data, top_data, qcd_train, qcd_test, jetImgs, jetFit,
                   jetOut, fixedInNb>>

\* line 56-57: a split raises, the run of the notebook stops
JetsSplitError ==
    /\ Cell = "61b86955"
    /\ \/ at = "split_qcd" /\ SplitRaises(qcd_data)
       \/ at = "split_top" /\ SplitRaises(top_data)
    /\ at' = "error"
    /\ UNCHANGED <<nb, cell, stages, dsVars, loopVars, wVars, jetData,
                   jetImgs, jetFit, jetOut, fixedInNb>>

\* to_image, expand_dims and the rescaling of one array of jets
ToImages(jets) == [i \in 1..Len(jets) |-> [jet |-> jets[i]]]

\* line 69-77: the three image arrays
JetsImages ==
    /\ Cell = "e3efe05a"
    /\ qcd_train_images' = ToImages(qcd_train)
    /\ qcd_test_images' = ToImages(qcd_test)
    /\ top_test_images' = ToImages(top_test)
    /\ cell' = cell + 1
    /\ stages' = Log("load")
    /\ UNCHANGED <<nb, at, dsVars, loopVars, wVars, jetData, jetFit, jetOut,
                   fixedInNb>>

\* line 116: plot_jet_images of qcd_test_images[0] and top_test_images[0]
JetsPlotInputs ==
    /\ Cell = "2daf76f8"
    /\ cell' = cell + 1
    /\ stages' = Log("visualize")
    /\ UNCHANGED <<nb, at, dsVars, loopVars, wVars, jetData, jetImgs, jetFit,
                   jetOut, fixedInNb>>

\* line 137-155: the autoencoder, compile, the encoder
JetsBuild ==
    /\ Cell = "d2d9a2cb"
    /\ weights' = [weights EXCEPT !.model = 0]
    /\ cell' = cell + 1
    /\ stages' = Log("build")
    /\ UNCHANGED <<nb, at, dsVars, loopVars, optimizer, model_trained,
                   fit_step, updated, jetData, jetImgs, jetFit, jetOut,
                   fixedInNb>>

\* model.fit called with the held-out QCD images as the training data
FitArgsHeldOut ==
    [x |-> qcd_test_images, y |-> qcd_test_images,
     val_x |-> qcd_train_images, val_y |-> qcd_train_images]

\* line 165-172: the arguments of model.fit
FitArgs ==
    [x |-> qcd_train_images, y |-> qcd_train_images,
     val_x |-> qcd_test_images, val_y |-> qcd_test_images]

\* model.fit: the next epoch starts, the training data is shuffled
JetsFitEpoch ==
    /\ Cell = "63ead39e" /\ at = "start" /\ fit_epoch < FitEpochs
    /\ fit_left' = 1..Len(FitArgs.x)
    /\ at' = "batches"
    /\ UNCHANGED <<nb, cell, stages, dsVars, loopVars, wVars, jetData,
                   jetImgs, fit_epoch, fitted, validated, jetOut, fixedInNb>>

\* model.fit: one gradient update, on a batch of samples (x[i], y[i]) not
\* yet seen in this epoch
JetsFitStep ==
    /\ Cell = "63ead39e" /\ at = "batches" /\ fit_left # {}
    /\ \E b \in SUBSET fit_left :
        /\ Cardinality(b) = Min(FitBatch, Cardinality(fit_left))
        /\ fitted' = fitted \cup
                        {[x |-> FitArgs.x[i], y |-> FitArgs.y[i]] : i \in b}
        /\ fit_left' = fit_left \ b
    /\ weights' = [weights EXCEPT !.model = weights.model + 1]
    /\ stages' = Log("train")
    /\ UNCHANGED <<nb, cell, at, dsVars, loopVars, optimizer, model_trained,
                   fit_step, updated, jetData, jetImgs, fit_epoch, validated,
                   jetOut, fixedInNb>>

\* model.fit: the end of an epoch: the loss on validation_data, no update
JetsFitValidate ==
    /\ Cell = "63ead39e" /\ at = "batches" /\ fit_left = {}
    /\ validated' = validated \cup
                       {[x |-> FitArgs.val_x[i], y |-> FitArgs.val_y[i]] :
                           i \in 1..Len(FitArgs.val_x)}
    /\ fit_epoch' = fit_epoch + 1
    /\ at' = "start"
    /\ UNCHANGED <<nb, cell, stages, dsVars, loopVars, wVars, jetData,
                   jetImgs, fit_left, fitted, jetOut, fixedInNb>>

\* model.fit returns
JetsFitDone ==
    /\ Cell = "63ead39e" /\ at = "start" /\ fit_epoch = FitEpochs
    /\ cell' = cell + 1
    /\ UNCHANGED <<nb, at, stages, dsVars, loopVars, wVars, jetData, jetImgs,
                   jetFit, jetOut, fixedInNb>>

\* model.predict: one reconstruction per image
Predict(images) ==
    [i \in 1..Len(images) |-> [reco_of |-> images[i], w |-> weights.model]]

\* line 182 and 193: model.predict of the first test image
JetsReconstructOne ==
    /\ Cell \in {"9fa8141f", "245e5c73"} /\ at = "start"
    /\ at' = "plot"
    /\ stages' = Log("compute")
    /\ UNCHANGED <<nb, cell, dsVars, loopVars, wVars, jetData, jetImgs,
                   jetFit, jetOut, fixedInNb>>

\* line 183 and 194: plot_jet_images of the input and its reconstruction
JetsPlotOne ==
    /\ Cell \in {"9fa8141f", "245e5c73"} /\ at = "plot"
    /\ cell' = cell + 1
    /\ at' = "start"
    /\ stages' = Log("visualize")
    /\ UNCHANGED <<nb, dsVars, loopVars, wVars, jetData, jetImgs, jetFit,
                   jetOut, fixedInNb>>

\* line 204-205: the reconstructions of the two test sets
JetsPredict ==
    /\ Cell = "3e1fa63f"
    /\ qcd_reco_images' = Predict(qcd_test_images)
    /\ top_reco_images' = Predict(top_test_images)
    /\ cell' = cell + 1
    /\ stages' = Log("compute")
    /\ UNCHANGED <<nb, at, dsVars, loopVars, wVars, jetData, jetImgs, jetFit,
                   loss_qcd, loss_top, loss_all, fixedInNb>>

\* np.mean(np.power(reco - images, 2).reshape(-1, im_size * im_size),
\* axis=-1): one mean squared error per image
MseLoss(reco, images) ==
    [i \in 1..Len(reco) |-> [reco |-> reco[i], target |-> images[i]]]

\* line 215-221: loss_qcd, loss_top, loss_all
JetsScores ==
    /\ Cell = "1ee0eadf"
    /\ loss_qcd' = MseLoss(qcd_reco_images, qcd_test_images)
    /\ loss_top' = MseLoss(top_reco_images, top_test_images)
    /\ loss_all' = loss_qcd' \o loss_top'
    /\ cell' = cell + 1
    /\ stages' = Log("compute")
    /\ UNCHANGED <<nb, at, dsVars, loopVars, wVars, jetData, jetImgs, jetFit,
                   qcd_reco_images, top_reco_images, fixedInNb>>

\* line 231-239: the histogram of the losses
JetsHistogram ==
    /\ Cell = "927f63d9"
    /\ cell' = cell + 1
    /\ stages' = Log("visualize")
    /\ UNCHANGED <<nb, at, dsVars, loopVars, wVars, jetData, jetImgs, jetFit,
                   jetOut, fixedInNb>>

(***************************************************************************)
(* The run of one of the two notebooks.                                    *)
(***************************************************************************)
Init ==
    /\ nb \in {"simclr", "jets"}
    /\ cell = 1 /\ at = "start" /\ stages = <<>>
    /\ ds_next = 1 /\ ds_shuffle = {} /\ ds_map = <<>>
    /\ ds_batch = <<>> /\ ds_prefetch = <<>>
    /\ epoch = 0 /\ iter = [e |-> 0, s |-> 0]
    /\ x1 = NoBatch /\ x2 = NoBatch /\ losses = <<>> /\ reads = {}
    /\ weights = [model |-> 0, dense64 |-> 0, dense10 |-> 0]
    /\ optimizer = 0 /\ model_trained = 0 /\ fit_step = 0 /\ updated = {}
    /\ labels \in IF nb = "jets" THEN DataSets ELSE {<<>>}
    /\ indices = <<>> /\ qcd_data = <<>> /\ top_data = <<>>
    /\ qcd_train = <<>> /\ qcd_test = <<>>
    /\ top_train = <<>> /\ top_test = <<>>
    /\ fit_epoch = 0 /\ fit_left = {} /\ fitted = {} /\ validated = {}
    /\ qcd_reco_images = <<>> /\ top_reco_images = <<>>
    /\ loss_qcd = <<>> /\ loss_top = <<>> /\ loss_all = <<>>
    /\ LossIdle /\ EncIdle /\ ImgIdle /\ AeIdle

Next ==
    \/ DefineCell
    \/ LoadMnist \/ DefinePipeline \/ CreateEncoder
    \/ EpochStart \/ ShuffleFill \/ ShuffleEmit \/ MapCall \/ MapEmit
    \/ BatchEmit \/ ForNext \/ TrainStep \/ ForEnd \/ EpochPrint
    \/ TrainingDone
    \/ ComputeTsne \/ PlotTsne
    \/ BuildClassifier \/ ClassifierFitStep \/ ClassifierFitDone
    \/ JetsDownload \/ JetsSelect \/ JetsSplitQcd \/ JetsSplitTop
    \/ JetsSplitError \/ JetsImages \/ JetsPlotInputs \/ JetsBuild
    \/ JetsFitEpoch \/ JetsFitStep \/ JetsFitValidate \/ JetsFitDone
    \/ JetsReconstructOne \/ JetsPlotOne \/ JetsPredict \/ JetsScores
    \/ JetsHistogram

Spec == Init /\ [][Next]_vars

(***************************************************************************)
(* Part 5: the autoencoder of anomaly_detection_jets.ipynb, cell d2d9a2cb. *)
(* The layers are applied one after the other to the shape of a sample     *)
(* (the batch axis left out); ae_im_size is the value of im_size the cell  *)
(* is run with.  The built model is then called on one image: softmax_in   *)
(* is the output of the last Conv2DTranspose for it, a tensor of shape     *)
(* (1, H, W, C) given as a function of the index <<b, h, w, c>>.           *)
(***************************************************************************)
CeilDiv(a, b) == (a + b - 1) \div b

\* the shapes of the cell that do not depend on im_size: 128 filters,
\* strides (2, 2), a bottleneck of 2 units
Filters == 128
Stride == 2
BottleneckUnits == 2

\* Conv2D(filters, kernel_size=(3, 3), strides, padding="same")
Conv2D(s, filters, strides) ==
    <<CeilDiv(s[1], strides), CeilDiv(s[2], strides), filters>>

\* Flatten()
FlattenLayer(s) == <<s[1] * s[2] * s[3]>>

\* Dense(units): the last axis becomes units
Dense(s, units) == [s EXCEPT ![Len(s)] = units]

\* the number of elements of a shape
RECURSIVE Size(_)
Size(s) == IF s = <<>> THEN 1 ELSE Head(s) * Size(Tail(s))

\* Reshape(target) raises unless the number of elements stays the same;
\* so does a layer with no element at all
ReshapeRaises(s, target) == Size(s) # Size(target) \/ Size(s) = 0

Reshape(s, target) == target

\* Conv2DTranspose with padding="valid": the kernel of 3 shows in the size
Conv2DTransposeValid(s, filters, strides) ==
    <<(s[1] - 1) * strides + 3, (s[2] - 1) * strides + 3, filters>>

\* Conv2DTranspose(filters, kernel_size=(3, 3), strides, padding="same")
Conv2DTranspose(s, filters, strides) ==
    <<s[1] * strides, s[2] * strides, filters>>

\* int(im_size * im_size / 16) * 128, the units of the decoder's Dense
DecoderUnits(n) == ((n * n) \div 16) * Filters

\* (int(im_size / 4), int(im_size / 4), 128), the target of Reshape
ReshapeTarget(n) == <<n \div 4, n \div 4, Filters>>

\* the indices of a tensor of shape (1, H, W, C)
Indices(s) == {1} \X (1..s[1]) \X (1..s[2]) \X (1..s[3])

SetMax(S) == CHOOSE m \in S : \A v \in S : v <= m

\* the r-th index, in row-major order, of a tensor of shape (1, s)
Unrank(s, r) ==
    <<1, ((r - 1) \div (s[2] * s[3])) + 1,
         (((r - 1) \div s[3]) % s[2]) + 1,
         ((r - 1) % s[3]) + 1>>

\* the sum of exp(t[i] - m) over the indices i of G among the lo-th to the
\* hi-th index of the tensor
RECURSIVE SumExp(_, _, _, _, _, _)
SumExp(G, t, m, s, lo, hi) ==
    IF lo = hi
    THEN (IF Unrank(s, lo) \in G THEN TfExp(t[Unrank(s, lo)] - m) ELSE Fin(0))
    ELSE LET mid == (lo + hi) \div 2
         IN  FAdd(SumExp(G, t, m, s, lo, mid), SumExp(G, t, m, s, mid + 1, hi))

\* the softmax of the entries of t with the indices G (one slice along the
\* reduced axes): exp(x - logsumexp(x)), where logsumexp takes the maximum
\* m of the slice out: exp(x - m) / sum(exp(x - m))
SoftmaxSlice(G, t, s) ==
    LET m == SetMax({t[i] : i \in G})
        den == SumExp(G, t, m, s, 1, Size(s))
    IN  [i \in G |-> FDiv(TfExp(t[i] - m), den)]

\* the slices of the indices I along the axes: the indices of a slice
\* agree on every axis that is not reduced (an axis a < 0 is the axis
\* a + 4 of the tensor, counted from 0)
Slices(I, axis) ==
    LET reduced == {IF a < 0 THEN a + 4 ELSE a : a \in axis}
        kept == (0..3) \ reduced
        Kept(i) == [p \in kept |-> i[p + 1]]
        keys == {Kept(i) : i \in I}
    IN  {{j \in I : Kept(j) = k} : k \in keys}

RECURSIVE SoftmaxOver(_, _, _)
SoftmaxOver(slices, t, s) ==
    IF slices = {} THEN <<>>
    ELSE LET G == CHOOSE g \in slices : TRUE
         IN  SoftmaxSlice(G, t, s) @@ SoftmaxOver(slices \ {G}, t, s)

\* Softmax(axis=[-2, -3]) called on the tensor t of shape (1, s)
Softmax(t, s, axis) == SoftmaxOver(Slices(Indices(s), axis), t, s)

\* the axes of the softmax layer
SoftmaxAxis == {-2, -3}

\* the values of the entries of the tensor that reaches the softmax
Logits == {0 - MaxLogit, -1, 0, 1, MaxLogit}

\* the tensors that reach the softmax: the value hot at one entry of the
\* diagonal of channel 1, the value rest everywhere else
SoftmaxInputs(s) ==
    {[i \in Indices(s) |-> IF i[2] = d /\ i[3] = d /\ i[4] = 1
                           THEN hot ELSE rest] :
        d \in 1..s[1], hot \in Logits, rest \in Logits}

AeInit ==
    /\ ae_im_size \in 1..MaxImSize
    /\ x_in = <<>> /\ x_layer = <<>> /\ x_enc = <<>> /\ x_out = <<>>
    /\ shapes = <<>> /\ softmax_in = <<>> /\ prediction = <<>>
    /\ apc = "Input"
    /\ LossIdle /\ EncIdle /\ ImgIdle /\ NbIdle

aeOthers == <<lossVars, encVars, imgVars, nbVars>>

\* line 137: x_in = Input(shape=(im_size, im_size, 1))
AeInput ==
    /\ apc = "Input"
    /\ x_in' = <<ae_im_size, ae_im_size, 1>>
    /\ shapes' = <<x_in'>>
    /\ apc' = "Conv2D_1"
    /\ UNCHANGED <<ae_im_size, x_layer, x_enc, x_out, softmax_in, prediction,
                   aeOthers>>

\* line 138: the first Conv2D
AeConv1 ==
    /\ apc = "Conv2D_1"
    /\ x_layer' = Conv2D(x_in, Filters, Stride)
    /\ shapes' = Append(shapes, x_layer')
    /\ apc' = "Conv2D_2"
    /\ UNCHANGED <<ae_im_size, x_in, x_enc, x_out, softmax_in, prediction,
                   aeOthers>>

\* line 139: the second Conv2D
AeConv2 ==
    /\ apc = "Conv2D_2"
    /\ x_layer' = Conv2D(x_layer, Filters, Stride)
    /\ shapes' = Append(shapes, x_layer')
    /\ apc' = "Flatten"
    /\ UNCHANGED <<ae_im_size, x_in, x_enc, x_out, softmax_in, prediction,
                   aeOthers>>

\* line 140: Flatten
AeFlatten ==
    /\ apc = "Flatten"
    /\ x_layer' = FlattenLayer(x_layer)
    /\ shapes' = Append(shapes, x_layer')
    /\ apc' = "bottleneck"
    /\ UNCHANGED <<ae_im_size, x_in, x_enc, x_out, softmax_in, prediction,
                   aeOthers>>

\* line 142: x_enc = Dense(2, name="bottleneck")(x)
AeBottleneck ==
    /\ apc = "bottleneck"
    /\ x_enc' = Dense(x_layer, BottleneckUnits)
    /\ shapes' = Append(shapes, x_enc')
    /\ apc' = "Dense"
    /\ UNCHANGED <<ae_im_size, x_in, x_layer, x_out, softmax_in, prediction,
                   aeOthers>>

\* line 144: the Dense of the decoder
AeDecoderDense ==
    /\ apc = "Dense"
    /\ x_layer' = Dense(x_enc, DecoderUnits(ae_im_size))
    /\ shapes' = Append(shapes, x_layer')
    /\ apc' = "Reshape"
    /\ UNCHANGED <<ae_im_size, x_in, x_enc, x_out, softmax_in, prediction,
                   aeOthers>>

\* line 145: Reshape
AeReshape ==
    /\ apc = "Reshape"
    /\ ~ReshapeRaises(x_layer, ReshapeTarget(ae_im_size))
    /\ x_layer' = Reshape(x_layer, ReshapeTarget(ae_im_size))
    /\ shapes' = Append(shapes, x_layer')
    /\ apc' = "Conv2DTranspose_1"
    /\ UNCHANGED <<ae_im_size, x_in, x_enc, x_out, softmax_in, prediction,
                   aeOthers>>

\* line 145: Reshape raises, the cell stops
AeReshapeError ==
    /\ apc = "Reshape"
    /\ ReshapeRaises(x_layer, ReshapeTarget(ae_im_size))
    /\ apc' = "error"
    /\ UNCHANGED <<ae_im_size, x_in, x_layer, x_enc, x_out, shapes, softmax_in,
                   prediction, aeOthers>>

\* line 146: the first Conv2DTranspose
AeDeconv1 ==
    /\ apc = "Conv2DTranspose_1"
    /\ x_layer' = Conv2DTranspose(x_layer, Filters, Stride)
    /\ shapes' = Append(shapes, x_layer')
    /\ apc' = "Conv2DTranspose_2"
    /\ UNCHANGED <<ae_im_size, x_in, x_enc, x_out, softmax_in, prediction,
                   aeOthers>>

\* line 147: the second Conv2DTranspose, of 1 filter
AeDeconv2 ==
    /\ apc = "Conv2DTranspose_2"
    /\ x_layer' = Conv2DTranspose(x_layer, 1, Stride)
    /\ shapes' = Append(shapes, x_layer')
    /\ apc' = "softmax"
    /\ UNCHANGED <<ae_im_size, x_in, x_enc, x_out, softmax_in, prediction,
                   aeOthers>>

\* line 148-149: x_out = Softmax(...)(x), a layer that keeps the shape;
\* model = Model(inputs=x_in, outputs=x_out)
AeSoftmax ==
    /\ apc = "softmax"
    /\ x_out' = x_layer
    /\ shapes' = Append(shapes, x_out')
    /\ apc' = "built"
    /\ UNCHANGED <<ae_im_size, x_in, x_layer, x_enc, softmax_in, prediction,
                   aeOthers>>

\* the model is called on one image
AePredict ==
    /\ apc = "built"
    /\ softmax_in' \in SoftmaxInputs(x_layer)
    /\ prediction' = Softmax(softmax_in', x_out, SoftmaxAxis)
    /\ apc' = "called"
    /\ UNCHANGED <<ae_im_size, x_in, x_layer, x_enc, x_out, shapes, aeOthers>>

AeNext ==
    \/ AeInput \/ AeConv1 \/ AeConv2 \/ AeFlatten \/ AeBottleneck
    \/ AeDecoderDense \/ AeReshape \/ AeReshapeError \/ AeDeconv1
    \/ AeDeconv2 \/ AeSoftmax \/ AePredict

SpecAutoencoder == AeInit /\ [][AeNext]_vars

(***************************************************************************)
(* The specification of Part 1.                                            *)
(***************************************************************************)

LossInit ==
    /\ z1 \in Batches
    /\ z2 \in {b \in Batches : Len(b) = Len(z1)}
    /\ invTemp \in InvTemps
    /\ loss = NoLoss
    /\ lpc = "call"
    /\ EncIdle
    /\ ImgIdle
    /\ NbIdle
    /\ AeIdle

\* loss = contrastive_loss(z1, z2)
LossCall ==
    /\ lpc = "call"
    /\ loss' = contrastive_loss(z1, z2, invTemp)
    /\ lpc' = "done"
    /\ UNCHANGED <<z1, z2, invTemp, encVars, imgVars, nbVars, aeVars>>

LossNext == LossCall

SpecLoss == LossInit /\ [][LossNext]_vars

(***************************************************************************)
(* Properties of contrastive_loss.                                         *)
(***************************************************************************)
\* comparisons of float32 values: every comparison with NaN is false
FGeqZero(a) == a.k = "inf" \/ (a.k = "fin" /\ a.v >= 0)

FLess(a, b) ==
    /\ a.k \in {"fin", "inf", "ninf"}
    /\ b.k \in {"fin", "inf", "ninf"}
    /\ \/ a.k = "ninf" /\ b.k # "ninf"
       \/ a.k = "fin" /\ b.k = "inf"
       \/ a.k = "fin" /\ b.k = "fin" /\ a.v < b.v

\* the batch size and the matrices of the call in the current state
BatchN == Len(z1)
CurSim == ScaledSim(z1, z2, invTemp)
CurMasked == MaskSim(CurSim, Eye(2 * BatchN))

\* C1: the value returned by contrastive_loss is >= 0, for every batch
\* size, every temperature > 0 and every pair of L2-normalized batches.
C1_LossNonNegative == lpc = "done" => FGeqZero(loss)

\* the similarity matrix sim with the similarity of row i and its positive
\* partner i+n (both entries) set to v
WithPositive(sim, n, i, v) ==
    [r \in 1..Len(sim) |->
        [c \in 1..Len(sim) |->
            IF (r = i /\ c = i + n) \/ (r = i + n /\ c = i) THEN v
            ELSE sim[r][c]]]

\* the scaled similarities larger than that of row i and its partner
Higher(sim, n, i) == {d * invTemp : d \in -1..1} \ (-invTemp..sim[i][i + n])

C9_NumeratorAligned ==
    lpc = "done" =>
        LET n == BatchN
            p == Positives(CurMasked, n)
            den == Denominator(CurMasked)
            Others(i) == SelectSeq([j \in 1..(2 * n) |-> j], LAMBDA j : j # i)
        IN  /\ Len(p) = 2 * n
            /\ \A i \in 1..n : p[i] = CurSim[i][i + n]
            /\ \A i \in (n + 1)..(2 * n) : p[i] = CurSim[i][i - n]
            /\ \A i, j \in 1..(2 * n) : i # j => CurMasked[i][j] = CurSim[i][j]
            /\ \A i \in 1..(2 * n) :
                /\ TfExp(CurMasked[i][i]) = Fin(0)
                /\ Len(Others(i)) = 2 * n - 1
                /\ den[i] = ReduceSum([c \in 1..(2 * n - 1) |->
                                         TfExp(CurSim[i][Others(i)[c]])])
            /\ loss = ReduceMean([i \in 1..(2 * n) |->
                                    NegLog(FDiv(TfExp(p[i]), den[i]))])

\* a finished call with N = 2 whose positive pairs are not all alike
C9_Witness ==
    /\ lpc = "done" /\ BatchN = 2
    /\ CurSim[1][3] # CurSim[2][4]
    /\ loss.k = "fin"

(***************************************************************************)
(* Properties of the encoder's output.                                     *)
(***************************************************************************)
\* the squared Euclidean norm of a normalized row, times the product of
\* its divisors, and that product: the norm is 1 iff the two are equal
NormSqNum(row) ==
    LET RECURSIVE P(_, _)
        P(k, c) == IF k = 0 THEN 1
                   ELSE (IF k = c THEN 1 ELSE row[k].d) * P(k - 1, c)
    IN  SumSeq([c \in 1..Len(row) |-> row[c].x * row[c].x * P(Len(row), c)])

NormSqDen(row) ==
    LET RECURSIVE P(_)
        P(k) == IF k = 0 THEN 1 ELSE row[k].d * P(k - 1)
    IN  P(Len(row))

UnitNorm(row) == NormSqNum(row) = NormSqDen(row)
ZeroRow(row) == \A c \in 1..Len(row) : row[c].x = 0

\* an entry n / sqrt(dd) of the product lies in [-1, 1], is 1, is 0
InUnitRange(e) == e.n * e.n <= e.dd
IsOne(e) == e.n > 0 /\ e.n * e.n = e.dd
IsZero(e) == e.n = 0

RECURSIVE Gcd(_, _)
Gcd(a, b) == IF b = 0 THEN a ELSE Gcd(b, a % b)

\* the sum of a sequence of finite quotients, as a reduced fraction
RECURSIVE QSum(_)
QSum(q) ==
    IF Len(q) = 0 THEN [n |-> 0, d |-> 1]
    ELSE LET t == QSum(Tail(q))
             n == Head(q).n * t.d + t.n * Head(q).d
             d == Head(q).d * t.d
             g == Gcd(n, d)
         IN  [n |-> n \div g, d |-> d \div g]

\* the pixels of one rescaled image, in row-major order
Pixels(img) ==
    [f \in 1..(im_size * im_size) |->
        img[((f - 1) \div im_size) + 1][((f - 1) % im_size) + 1][1]]

SumsToOne(img) ==
    /\ \A f \in 1..(im_size * im_size) : Pixels(img)[f].k = "fin"
    /\ QSum(Pixels(img)) = [n |-> 1, d |-> 1]

\* C10: after the rescaling every image of the three arrays sums to 1,
\* also one whose pixel sum was 0, and no pixel is NaN or infinite.
C10_EveryImageSumsToOne ==
    rpc = "done" =>
        /\ \A k \in 1..Len(qcd_train_images) : SumsToOne(qcd_train_images[k])
        /\ \A k \in 1..Len(qcd_test_images) : SumsToOne(qcd_test_images[k])
        /\ \A k \in 1..Len(top_test_images) : SumsToOne(top_test_images[k])

(***************************************************************************)
(* Properties of the runs of the notebooks (specification Spec).           *)
(***************************************************************************)
\* the cell with this id has run to its end
Past(id) == \E i \in 1..Len(Cells) : Cells[i] = id /\ cell > i

\* classifier.fit has made at least one gradient step
FitStarted == nb = "simclr" /\ Cell = "a83733ab" /\ at = "fit" /\ fit_step >= 1

\* C3: during and after classifier.fit the weights of the encoder model are
\* those at the end of the contrastive training, and classifier.fit updates
\* no weights but those of the classification layer Dense(10).
C3_EncoderFrozen ==
    (FitStarted \/ (nb = "simclr" /\ Past("a83733ab")))
        => /\ weights.model = model_trained
           /\ updated \subseteq {"dense10"}

\* the two batches x1, x2 are aligned: position by position the first and
\* the second output of one call of augment on one image of x_train, and
\* different positions hold different images
Aligned(a, b) ==
    /\ Len(a) = Len(b)
    /\ \A i \in 1..Len(a) :
        /\ a[i].src = b[i].src /\ a[i].src \in 1..NImg
        /\ a[i].call = 1 /\ b[i].call = 2
    /\ \A i, j \in 1..Len(a) : i # j => a[i].src # a[j].src

\* the sources of the rows of the concatenation of the embeddings z1, z2
EmbeddedSources == [i \in 1..(Len(z1.rows) + Len(z2.rows)) |->
                       Concat(z1.rows, z2.rows)[i].of.src]

\* C4: in every epoch every batch (x1, x2) that train_ds yields holds at
\* each position two augmentations of one image of x_train, different
\* positions hold different images, and row i and row i + N of the
\* concatenated embeddings are views of the same image.
C4_PositivePairsAligned ==
    nb = "simclr" =>
        /\ \A k \in 1..Len(ds_prefetch) :
              Aligned(ds_prefetch[k][1], ds_prefetch[k][2])
        /\ x1.iter.s >= 1 => /\ Aligned(x1.rows, x2.rows)
                             /\ x1.rows # <<>>
        /\ optimizer >= 1 =>
              /\ Len(z1.rows) = Len(z2.rows)
              /\ \A i \in 1..Len(z1.rows) :
                    /\ EmbeddedSources[i] = EmbeddedSources[i + Len(z1.rows)]
                    /\ \A j \in 1..(2 * Len(z1.rows)) :
                          j \notin {i, i + Len(z1.rows)}
                              => EmbeddedSources[j] # EmbeddedSources[i]

\* a full batch of the second epoch whose images the shuffle has put out of
\* the order of x_train has been embedded
C4_Witness ==
    /\ nb = "simclr" /\ epoch = 2 /\ at = "for" /\ optimizer >= 3
    /\ Len(x1.rows) = batch_size
    /\ x1.rows[1].src > x1.rows[2].src
    /\ z1.iter = iter


\* C5: every sample of a gradient update of model.fit is an image of
\* qcd_train_images with itself as target, none is a top jet or an image of
\* qcd_test_images or top_test_images; qcd_train and qcd_test are disjoint
\* and together are qcd_data; loss_qcd and loss_top hold one value for each
\* jet of qcd_test and of top_test.
C5_TrainedOnQcdScoredOnHeldOut ==
    nb = "jets" =>
        /\ \A s \in fitted :
              /\ s.y = s.x
              /\ s.x \in Range(qcd_train_images)
              /\ s.x.jet \in Range(qcd_train)
              /\ labels[s.x.jet] = 0
              /\ s.x \notin Range(qcd_test_images) \cup Range(top_test_images)
        /\ Past("61b86955") =>
              /\ Range(qcd_train) \cap Range(qcd_test) = {}
              /\ Range(qcd_train) \cup Range(qcd_test) = Range(qcd_data)
              /\ Len(qcd_train) + Len(qcd_test) = Len(qcd_data)
        /\ Past("1ee0eadf") =>
              /\ Len(loss_qcd) = Len(qcd_test)
              /\ Len(loss_top) = Len(top_test)
              /\ \A i \in 1..Len(loss_qcd) :
                    /\ loss_qcd[i].target.jet = qcd_test[i]
                    /\ loss_qcd[i].reco.reco_of.jet = qcd_test[i]
              /\ \A i \in 1..Len(loss_top) :
                    /\ loss_top[i].target.jet = top_test[i]
                    /\ loss_top[i].reco.reco_of.jet = top_test[i]

\* the notebook has run to its end on a selection of three QCD and two top
\* jets: two training images, a full batch, one test jet of each type
C5_Witness ==
    /\ nb = "jets" /\ Cell = "end"
    /\ Cardinality(fitted) = 2
    /\ Len(loss_qcd) = 1 /\ Len(loss_top) = 1
    /\ Len(indices) = max_jets

\* the order of the stages of the claim
PipelineOrder ==
    <<"load", "augment", "build", "train", "compute", "visualize">>

IsPrefix(s, t) == Len(s) <= Len(t) /\ \A i \in 1..Len(s) : s[i] = t[i]

\* C7 as stated: in both notebooks the stages run in the order load,
\* augment, build, train, compute, visualize, each once and after the one
\* before it, the whole of them by the end of the notebook.
C7_StagesInPipelineOrder ==
    /\ nb \in {"simclr", "jets"} => IsPrefix(stages, PipelineOrder)
    /\ (nb \in {"simclr", "jets"} /\ Cell = "end") => stages = PipelineOrder

\* the sequence s without the entries e, a repeated entry kept once
RECURSIVE Without(_, _)
Without(s, e) ==
    IF s = <<>> THEN <<>>
    ELSE LET r == Without(Tail(s), e)
         IN  IF Head(s) = e \/ (r # <<>> /\ Head(r) = Head(s)) THEN r
             ELSE <<Head(s)>> \o r

\* the stages of simclr.ipynb, the augmentation apart
SimclrOrder ==
    <<"load", "build", "train", "compute", "visualize",
      "build", "train", "compute", "visualize">>

\* the stages of anomaly_detection_jets.ipynb
JetsOrder ==
    <<"load", "visualize", "build", "train", "compute", "visualize",
      "compute", "visualize", "compute", "visualize">>

\* the positions of the stage e in the log
Positions(e) == {i \in 1..Len(stages) : stages[i] = e}

\* C7: simclr.ipynb runs load, build, train, compute, visualize and then,
\* for the linear evaluation, build, train, compute, visualize again; its
\* augmentation runs inside the training loop, after the encoder is built
\* and before the first embedding is computed, the first time before the
\* first training step.  anomaly_detection_jets.ipynb has no augmentation
\* and plots its input images before the model is built and trained: load,
\* visualize, build, train, then three times compute and visualize.
C7_StagesAsExecuted ==
    /\ nb = "simclr" =>
        /\ IsPrefix(Without(stages, "augment"), SimclrOrder)
        /\ Cell = "end" => Without(stages, "augment") = SimclrOrder
        /\ \A a \in Positions("augment") :
              /\ \E b \in Positions("build") : b < a
              /\ \A c \in Positions("compute") : a < c
        /\ \A t \in Positions("train") :
              \E a \in Positions("augment") : a < t
    /\ nb = "jets" =>
        /\ IsPrefix(stages, JetsOrder)
        /\ Cell = "end" => stages = JetsOrder
        /\ Positions("augment") = {}

\* both notebooks can run to their end; the jets notebook has plotted
\* before its model was built
C7_Witness ==
    /\ nb = "jets" /\ Cell = "end"
    /\ stages[2] = "visualize" /\ stages[3] = "build"

\* the augmentation of simclr.ipynb has run between two training steps
C7_WitnessSimclr ==
    /\ nb = "simclr" /\ Cell = "end"
    /\ \E a \in Positions("augment") :
          a > 1 /\ stages[a - 1] = "train" /\ stages[a + 1] = "train"

\* C8 as stated: every value that a statement of the training loop reads
\* was produced in the running iteration of the inner loop: no value of x1,
\* x2, z1, z2 or loss is read in a later iteration or after the inner loop.
C8_NothingOutlivesIteration ==
    nb = "simclr" => \A r \in reads : r.iter = iter

\* C8: a value of x1, x2, z1 or z2 is read only in the iteration that
\* produced it.  The value of loss of every iteration is appended to
\* losses: losses is carried from iteration to iteration, holds the loss of
\* iteration k of the running epoch at position k, is read by np.mean after
\* the inner loop has ended, and is emptied at the start of each epoch.
C8_LossesOutliveIteration ==
    nb = "simclr" =>
        /\ \A r \in reads :
              /\ r.var # "losses" => r.iter = iter
              /\ r.var = "losses" => (r.iter.e = epoch /\ iter.s = 0)
        /\ \A k \in 1..Len(losses) :
              losses[k].iter = [e |-> epoch, s |-> k]
        /\ (Cell = "ec249101" /\ at = "for") => Len(losses) = iter.s
        /\ (Cell = "ec249101" /\ at = "body") => Len(losses) = iter.s - 1
        /\ (Cell = "ec249101" /\ at = "epoch" /\ epoch >= 1) =>
              {r.iter : r \in reads} = {losses[k].iter : k \in 1..Len(losses)}

\* np.mean has read, after the inner loop of the second epoch, the losses
\* of its two iterations
C8_Witness ==
    /\ nb = "simclr" /\ Cell = "ec249101" /\ at = "epoch" /\ epoch = 2
    /\ Cardinality(reads) >= 2
    /\ \A r \in reads : r.var = "losses"

(***************************************************************************)
(* Properties of the autoencoder (specification SpecAutoencoder).          *)
(***************************************************************************)
\* the least common multiple of the denominators of a set of quotients
RECURSIVE LcmDen(_)
LcmDen(Q) ==
    IF Q = {} THEN 1
    ELSE LET q == CHOOSE r \in Q : TRUE
             l == LcmDen(Q \ {q})
         IN  (l \div Gcd(l, q.d)) * q.d

\* the sum of the numerators, over the common denominator L, of the lo-th
\* to the hi-th entry of the tensor f of shape (1, s)
RECURSIVE NumSum(_, _, _, _, _)
NumSum(f, L, s, lo, hi) ==
    IF lo = hi
    THEN f[Unrank(s, lo)].n * (L \div f[Unrank(s, lo)].d)
    ELSE LET mid == (lo + hi) \div 2
         IN  NumSum(f, L, s, lo, mid) + NumSum(f, L, s, mid + 1, hi)

\* the entries of the prediction for the image are finite and sum to 1
PredictionSumsToOne ==
    LET L == LcmDen({prediction[i] : i \in DOMAIN prediction})
    IN  /\ \A i \in DOMAIN prediction : prediction[i].k = "fin"
        /\ NumSum(prediction, L, x_out, 1, Size(x_out)) = L

\* the shapes of the layers for an im_size n that is a multiple of 4
ExpectedShapes(n) ==
    << <<n, n, 1>>, <<n \div 2, n \div 2, Filters>>,
       <<n \div 4, n \div 4, Filters>>,
       <<(n \div 4) * (n \div 4) * Filters>>, <<BottleneckUnits>>,
       <<(n \div 4) * (n \div 4) * Filters>>,
       <<n \div 4, n \div 4, Filters>>, <<n \div 2, n \div 2, Filters>>,
       <<n, n, 1>>, <<n, n, 1>> >>

\* C11: for every im_size that is a positive multiple of 4 (16 among them)
\* the two convolutions halve the spatial size twice, the decoder's Dense
\* has as many units as the Reshape target has elements, Reshape does not
\* raise, the two transposed convolutions double the size twice, x_out has
\* the shape (im_size, im_size, 1) of x_in, and the bottleneck has 2
\* dimensions; the output of the model for an image sums to 1.
C11_OutputShapeIsInputShape ==
    /\ (apc # "idle" /\ ae_im_size % 4 = 0) =>
        /\ apc # "error"
        /\ IsPrefix(shapes, ExpectedShapes(ae_im_size))
        /\ apc \in {"built", "called"} =>
              /\ shapes = ExpectedShapes(ae_im_size)
              /\ x_out = x_in
              /\ x_out = <<ae_im_size, ae_im_size, 1>>
              /\ x_enc = <<BottleneckUnits>> /\ BottleneckUnits = 2
              /\ DecoderUnits(ae_im_size) = Size(ReshapeTarget(ae_im_size))
    /\ apc = "called" =>
        /\ DOMAIN prediction = Indices(x_out)
        /\ PredictionSumsToOne

\* the model built with im_size = 16 has been called on an image whose
\* softmax input holds a large and a small value
C11_Witness ==
    /\ apc = "called" /\ ae_im_size = 16
    /\ x_out = <<16, 16, 1>>
    /\ \E i, j \in DOMAIN softmax_in :
          softmax_in[i] = MaxLogit /\ softmax_in[j] = 0 - MaxLogit

====
